---- MODULE Spec2Model ----
(***************************************************************************)
(* Model of src/app.py: the wave inventory reconciliation pipeline          *)
(* (run_pipeline) and the upload / run / rerun cycle of the page around it. *)
(*                                                                         *)
(* A text value is a sequence of one-character strings; NBSP stands for the *)
(* character U+00A0 and TAB for U+0009.  A cell of a table is a record      *)
(* [typ, str]: typ = "str" for text, "nan" for a missing value (NaN) and    *)
(* "bool" for a boolean.  A table is [columns, rows]: columns is the        *)
(* sequence of column labels, each row is [idx, cells] where idx is the     *)
(* pandas index label of the row and cells maps column label to cell.      *)
(***************************************************************************)
EXTENDS Integers, Sequences, FiniteSets, TLC

\* ------------------------------------------------------------------------
\* Bounds of the model: the maximal number of rows of each uploaded table.
\* ------------------------------------------------------------------------
MaxInvRows == 2
MaxConvRows == 1
MaxOutRows == 2

\* ------------------------------------------------------------------------
\* Configuration constants (src/app.py lines 12-26)
\* ------------------------------------------------------------------------
INV_AREA_COL == "Area Code"
INV_BIN_STATUS_COL == "Bin Status"
INV_HU_TYPE_COL == "HU Type"
INV_QUALITY_COL == "Quality"
INV_INCLUSION_COL == "Inclusion Status"
INV_HU_CODE_COL == "HU Code"
INV_SKU_COL == "Sku Code"
INV_BATCH_COL == "Batch"
\* conveyor column labels are inspected character by character (line 80),
\* so they are text values
CONV_INNER_HU_COL == <<"I","n","n","e","r","H","U">>
OUT_SKU_COL == "Sku"
OUT_BATCH_COL == "Batch Allocated"

\* ------------------------------------------------------------------------
\* Characters and text primitives (the str methods the helpers call)
\* ------------------------------------------------------------------------
NBSP == "NBSP"
TAB == "\t"

UpperChars ==
  <<"A","B","C","D","E","F","G","H","I","J","K","L","M",
    "N","O","P","Q","R","S","T","U","V","W","X","Y","Z">>
LowerChars ==
  <<"a","b","c","d","e","f","g","h","i","j","k","l","m",
    "n","o","p","q","r","s","t","u","v","w","x","y","z">>

\* str.isspace() of one character: U+00A0 is white space in Python
IsSpace(c) == c \in {" ", TAB, NBSP}

\* the lower-case letter of every upper-case letter
LowerMap ==
  [c \in {UpperChars[i] : i \in 1..Len(UpperChars)} |->
     LowerChars[CHOOSE i \in 1..Len(UpperChars) : UpperChars[i] = c]]

LowerChar(c) == IF c \in DOMAIN LowerMap THEN LowerMap[c] ELSE c

\* str.lower()
Lower(s) == [i \in 1..Len(s) |-> LowerChar(s[i])]

\* str.replace(NBSP, " ", regex=False)
ReplaceNBSP(s) == [i \in 1..Len(s) |-> IF s[i] = NBSP THEN " " ELSE s[i]]

\* str.replace(r"\s+", " ", regex=True): every maximal run of white space
\* becomes one space
RECURSIVE CollapseFrom(_, _)
CollapseFrom(s, i) ==
  IF i > Len(s) THEN <<>>
  ELSE IF IsSpace(s[i])
       THEN IF i > 1 /\ IsSpace(s[i-1])
            THEN CollapseFrom(s, i + 1)
            ELSE <<" ">> \o CollapseFrom(s, i + 1)
       ELSE <<s[i]>> \o CollapseFrom(s, i + 1)
CollapseWhitespace(s) == CollapseFrom(s, 1)

RECURSIVE LStrip(_)
LStrip(s) ==
  IF s # <<>> /\ IsSpace(Head(s)) THEN LStrip(Tail(s)) ELSE s
RECURSIVE RStrip(_)
RStrip(s) ==
  IF s # <<>> /\ IsSpace(s[Len(s)]) THEN RStrip(SubSeq(s, 1, Len(s) - 1)) ELSE s
\* str.strip()
Strip(s) == RStrip(LStrip(s))

\* sub in s  /  str.contains(sub)
Contains(s, sub) ==
  \E i \in 0..(Len(s) - Len(sub)) : SubSeq(s, i + 1, i + Len(sub)) = sub

\* ------------------------------------------------------------------------
\* Cells
\* ------------------------------------------------------------------------
NaN == [typ |-> "nan", str |-> <<>>]
Str(s) == [typ |-> "str", str |-> s]
Bool(b) == [typ |-> "bool", str |-> IF b THEN <<"T">> ELSE <<"F">>]

\* Series.fillna("") followed by astype(str), on one cell
FillnaStr(c) ==
  IF c.typ = "nan" THEN <<>>
  ELSE IF c.typ = "bool"
       THEN (IF c = Bool(TRUE) THEN <<"T","r","u","e">> ELSE <<"F","a","l","s","e">>)
       ELSE c.str

\* Series.astype(str) on one cell: a missing value becomes the text "nan"
AsTypeStr(c) ==
  IF c.typ = "nan" THEN <<"n","a","n">> ELSE FillnaStr(c)

\* ------------------------------------------------------------------------
\* Helpers (src/app.py lines 31-41), on one cell of a series
\* ------------------------------------------------------------------------
normalize_series(c) ==
  Lower(Strip(CollapseWhitespace(ReplaceNBSP(FillnaStr(c)))))

concat_no_delim(a, b) == normalize_series(a) \o normalize_series(b)

\* ------------------------------------------------------------------------
\* Data frame primitives
\* ------------------------------------------------------------------------
\* name in df.columns
HasColumn(df, name) == \E i \in 1..Len(df.columns) : df.columns[i] = name

\* df[name] = vals, vals being a series aligned with the rows of df: the
\* column is overwritten in place when it exists and appended as the last
\* column when it does not
SetColumn(df, name, vals) ==
  [columns |-> IF HasColumn(df, name) THEN df.columns ELSE Append(df.columns, name),
   rows    |-> [i \in 1..Len(df.rows) |->
                  [idx   |-> df.rows[i].idx,
                   cells |-> (name :> vals[i]) @@ df.rows[i].cells]]]

\* df[name] = scalar
Broadcast(df, cell) == [i \in 1..Len(df.rows) |-> cell]

\* df[mask]: the rows whose mask entry is true, in their order, index labels
\* kept
RECURSIVE MaskedFrom(_, _, _)
MaskedFrom(rows, mask, i) ==
  IF i > Len(rows) THEN <<>>
  ELSE (IF mask[i] THEN <<rows[i]>> ELSE <<>>) \o MaskedFrom(rows, mask, i + 1)

SelectRows(df, mask) ==
  [columns |-> df.columns, rows |-> MaskedFrom(df.rows, mask, 1)]

\* the set of the values of a sequence
Range(f) == {f[i] : i \in DOMAIN f}

\* ------------------------------------------------------------------------
\* run_pipeline, step 2: inventory filters (lines 50-60)
\* ------------------------------------------------------------------------
\* one "contains" filter: skipped when the column is missing
FilterContains(df, col, sub) ==
  IF HasColumn(df, col)
  THEN SelectRows(df, [i \in 1..Len(df.rows) |->
                         Contains(Lower(AsTypeStr(df.rows[i].cells[col])), sub)])
  ELSE df

\* the "equals" filter comparing without lower-casing
FilterEquals_CaseSensitive(df, col, val) ==
  IF HasColumn(df, col)
  THEN SelectRows(df, [i \in 1..Len(df.rows) |-> AsTypeStr(df.rows[i].cells[col]) = val])
  ELSE df

\* one "equals" filter: skipped when the column is missing
FilterEquals(df, col, val) ==
  IF HasColumn(df, col)
  THEN SelectRows(df, [i \in 1..Len(df.rows) |->
                         Lower(AsTypeStr(df.rows[i].cells[col])) = val])
  ELSE df

ApplyInventoryFilters(df) ==
  LET f1 == FilterContains(df, INV_AREA_COL, <<"p","a","r","t","i","a","l">>)
      f2 == FilterEquals(f1, INV_BIN_STATUS_COL, <<"a","c","t","i","v","e">>)
      f3 == FilterEquals(f2, INV_HU_TYPE_COL, <<"c","a","r","t","o","n","s">>)
      f4 == FilterEquals(f3, INV_QUALITY_COL, <<"g","o","o","d">>)
  IN  FilterContains(f4, INV_INCLUSION_COL, <<"i","n","c","l","u","d","e","d">>)

\* ------------------------------------------------------------------------
\* step 3: inventory key, no delimiter (lines 62-66)
\* ------------------------------------------------------------------------
AddInvKey(df) ==
  IF HasColumn(df, INV_SKU_COL) /\ HasColumn(df, INV_BATCH_COL)
  THEN SetColumn(df, "INV_KEY",
         [i \in 1..Len(df.rows) |->
            Str(concat_no_delim(df.rows[i].cells[INV_SKU_COL],
                                df.rows[i].cells[INV_BATCH_COL]))])
  ELSE SetColumn(df, "INV_KEY", Broadcast(df, Str(<<>>)))

\* ------------------------------------------------------------------------
\* step 4: normalized HU codes of the inventory (lines 68-72)
\* ------------------------------------------------------------------------
AddHUNorm(df) ==
  IF HasColumn(df, INV_HU_CODE_COL)
  THEN SetColumn(df, "HU_norm",
         [i \in 1..Len(df.rows) |->
            Str(normalize_series(df.rows[i].cells[INV_HU_CODE_COL]))])
  ELSE SetColumn(df, "HU_norm", Broadcast(df, Str(<<>>)))

\* ------------------------------------------------------------------------
\* step 5: conveyor (lines 74-87)
\* ------------------------------------------------------------------------
INNER_norm == <<"I","N","N","E","R","_","n","o","r","m">>

\* "inner" in c.lower() and "hu" in c.lower()
LooksLikeInnerHU(c) ==
  /\ Contains(Lower(c), <<"i","n","n","e","r">>)
  /\ Contains(Lower(c), <<"h","u">>)

\* matched = [c for c in conv.columns if ...]
Matched(df) == SelectSeq(df.columns, LooksLikeInnerHU)

\* normalize_series(conv[col])
NormalizedColumn(df, col) ==
  [i \in 1..Len(df.rows) |-> Str(normalize_series(df.rows[i].cells[col]))]

NormalizeConveyor(df) ==
  IF HasColumn(df, CONV_INNER_HU_COL)
  THEN SetColumn(df, INNER_norm, NormalizedColumn(df, CONV_INNER_HU_COL))
  ELSE IF Matched(df) # <<>>
       THEN SetColumn(df, INNER_norm, NormalizedColumn(df, Matched(df)[1]))
       ELSE SetColumn(df, INNER_norm, Broadcast(df, Str(<<>>)))

\* set(conv["INNER_norm"].dropna().unique())
FedSet(conv) ==
  {c.str : c \in {r.cells[INNER_norm] : r \in Range(conv.rows)} \ {NaN}}

\* ------------------------------------------------------------------------
\* step 6: outbound keys and display concatenation (lines 89-101)
\* ------------------------------------------------------------------------
\* fillna("").astype(str).str.strip() of both fields, concatenated
OutConcat(r) ==
  Strip(FillnaStr(r.cells[OUT_SKU_COL])) \o Strip(FillnaStr(r.cells[OUT_BATCH_COL]))

AddOutKeys(df) ==
  IF HasColumn(df, OUT_SKU_COL) /\ HasColumn(df, OUT_BATCH_COL)
  THEN SetColumn(
         SetColumn(df, "OUT_KEY",
           [i \in 1..Len(df.rows) |->
              Str(concat_no_delim(df.rows[i].cells[OUT_SKU_COL],
                                  df.rows[i].cells[OUT_BATCH_COL]))]),
         "OUT_CONCAT", [i \in 1..Len(df.rows) |-> Str(OutConcat(df.rows[i]))])
  ELSE SetColumn(SetColumn(df, "OUT_KEY", Broadcast(df, Str(<<>>))),
                 "OUT_CONCAT", Broadcast(df, Str(<<>>)))

\* set(out["OUT_KEY"].dropna().unique())
DemandKeys(out) ==
  {c.str : c \in {r.cells["OUT_KEY"] : r \in Range(out.rows)} \ {NaN}}

\* the mapping keeping the last occurrence per key instead of the first
OutMap_KeepLast(out) ==
  [k \in DemandKeys(out) |->
     LET last == CHOOSE i \in 1..Len(out.rows) :
                   /\ out.rows[i].cells["OUT_KEY"] = Str(k)
                   /\ \A j \in (i + 1)..Len(out.rows) : out.rows[j].cells["OUT_KEY"] # Str(k)
     IN  out.rows[last].cells["OUT_CONCAT"]]

\* out.dropna(subset=["OUT_KEY"]).drop_duplicates(subset=["OUT_KEY"])
\*    .set_index("OUT_KEY")["OUT_CONCAT"].to_dict(): first occurrence per key
OutMap(out) ==
  [k \in DemandKeys(out) |->
     LET first == CHOOSE i \in 1..Len(out.rows) :
                    /\ out.rows[i].cells["OUT_KEY"] = Str(k)
                    /\ \A j \in 1..(i - 1) : out.rows[j].cells["OUT_KEY"] # Str(k)
     IN  out.rows[first].cells["OUT_CONCAT"]]

\* ------------------------------------------------------------------------
\* step 7: not-fed rows (lines 103-105)
\* ------------------------------------------------------------------------
\* Series.isin(values) on one cell
IsIn(c, values) == c.typ = "str" /\ c.str \in values

\* the fed flag with the membership test inverted
AddIsFed_Inverted(df, fed) ==
  SetColumn(df, "Is_Fed",
    [i \in 1..Len(df.rows) |-> Bool(~IsIn(df.rows[i].cells["HU_norm"], fed))])

AddIsFed(df, fed) ==
  SetColumn(df, "Is_Fed",
    [i \in 1..Len(df.rows) |-> Bool(IsIn(df.rows[i].cells["HU_norm"], fed))])

\* the not-fed selection that forgets to drop the fed rows
NotFedRows_KeepAll(df) == df

NotFedRows(df) ==
  SelectRows(df, [i \in 1..Len(df.rows) |-> df.rows[i].cells["Is_Fed"] = Bool(FALSE)])

\* ------------------------------------------------------------------------
\* step 8: rows whose key is demanded (lines 107-110)
\* ------------------------------------------------------------------------
\* not_fed["INV_KEY"].fillna("")
FillKey(df) ==
  SetColumn(df, "INV_KEY",
    [i \in 1..Len(df.rows) |->
       IF df.rows[i].cells["INV_KEY"] = NaN THEN Str(<<>>) ELSE df.rows[i].cells["INV_KEY"]])

\* the demand selection that forgets to apply the mask
DemandedRows_NoMask(df, keys) == df

DemandedRows(df, keys) ==
  SelectRows(df, [i \in 1..Len(df.rows) |-> IsIn(df.rows[i].cells["INV_KEY"], keys)])

\* ------------------------------------------------------------------------
\* steps 9 and 10: derived columns (lines 112-116)
\* ------------------------------------------------------------------------
\* out_map.get(k, "")
MapGet(m, k) == IF k \in DOMAIN m THEN m[k] ELSE Str(<<>>)

AddDerivedColumns(df, m) ==
  SetColumn(SetColumn(df, "Conveyor_HU", Broadcast(df, Str(<<>>))),
            "SBL Demand",
            [i \in 1..Len(df.rows) |-> MapGet(m, df.rows[i].cells["INV_KEY"].str)])

\* ------------------------------------------------------------------------
\* column order of the final sheet (lines 118-123)
\* ------------------------------------------------------------------------
FinalColumns(orig, df) ==
  LET inventory_cols == SelectSeq(IF Len(orig.columns) > 0 THEN orig.columns ELSE df.columns,
                                  LAMBDA c : HasColumn(df, c))
      extra_cols == SelectSeq(<<"Conveyor_HU", "SBL Demand">>, LAMBDA c : HasColumn(df, c))
  IN  inventory_cols \o extra_cols

\* final.reindex(columns=...)
Reindex(df, cols) ==
  [columns |-> cols,
   rows    |-> [i \in 1..Len(df.rows) |->
                  [idx   |-> df.rows[i].idx,
                   cells |-> [c \in Range(cols) |->
                                IF c \in DOMAIN df.rows[i].cells
                                THEN df.rows[i].cells[c] ELSE NaN]]]]

\* ------------------------------------------------------------------------
\* run_pipeline as a whole (lines 46-132): every local of the function
\* ------------------------------------------------------------------------
PipelineLocals(inv_in, conv_in, out_in) ==
  LET inv0   == AddHUNorm(AddInvKey(ApplyInventoryFilters(inv_in)))
      conv   == NormalizeConveyor(conv_in)
      fed    == FedSet(conv)
      out    == AddOutKeys(out_in)
      omap   == OutMap(out)
      keys   == DemandKeys(out)
      inv1   == AddIsFed(inv0, fed)
      nf     == FillKey(NotFedRows(inv1))
      fin0   == AddDerivedColumns(DemandedRows(nf, keys), omap)
      fin    == Reindex(fin0, FinalColumns(inv_in, fin0))
  IN  [inv |-> inv1, fed_set |-> fed, out_map |-> omap, demand_keys |-> keys,
       not_fed |-> nf, final |-> fin,
       counts |-> [inventory_after_filters |-> Len(inv1.rows),
                   not_fed_count           |-> Len(nf.rows),
                   final_matched_count     |-> Len(fin.rows),
                   demand_keys             |-> Cardinality(keys)]]

\* ------------------------------------------------------------------------
\* The uploaded workbooks: the tables the three file uploaders can deliver
\* ------------------------------------------------------------------------
EmptyDF == [columns |-> <<>>, rows |-> <<>>]

\* all sequences over S of length at most n
SeqsUpTo(S, n) == UNION {[1..k -> S] : k \in 0..n}

\* the table with the given column labels whose i-th row takes its cells
\* from the i-th record of recs (index labels 0, 1, ... as read_excel gives)
MakeDF(cols, recs) ==
  [columns |-> cols,
   rows    |-> [i \in 1..Len(recs) |->
                  [idx |-> i - 1, cells |-> [c \in Range(cols) |-> recs[i][c]]]]]

\* a sheet without columns has no rows
Tables(layouts, recs, n) ==
  {MakeDF(cols, rs) : cols \in layouts \ {<<>>}, rs \in SeqsUpTo(recs, n)}
    \cup (IF <<>> \in layouts THEN {EmptyDF} ELSE {})

T_S1 == <<"S","1">>
T_B1 == <<"B","1">>

InvRecord(area, bin, typ, qual, incl, hu, sku, batch) ==
  (INV_AREA_COL :> area) @@ (INV_BIN_STATUS_COL :> bin) @@ (INV_HU_TYPE_COL :> typ)
  @@ (INV_QUALITY_COL :> qual) @@ (INV_INCLUSION_COL :> incl)
  @@ (INV_HU_CODE_COL :> hu) @@ (INV_SKU_COL :> sku) @@ (INV_BATCH_COL :> batch)
  @@ ("INV_KEY" :> Str(<<"x">>)) @@ ("HU_norm" :> Str(<<"y">>))
  @@ ("SBL Demand" :> Str(<<"z">>))

E_Area == Str(<<"P","a","r","t","i","a","l"," ","C","L","D">>)
E_Bin == Str(<<"A","c","t","i","v","e">>)
E_Type == Str(<<"C","a","r","t","o","n","s">>)
E_Qual == Str(<<"G","o","o","d">>)
E_Incl == Str(<<"I","n","c","l","u","d","e","d">>)

InvRecords ==
  { \* scenario A: an eligible carton HU1 of S1 / B1
    InvRecord(E_Area, E_Bin, E_Type, E_Qual, E_Incl, Str(<<"H","U","1"," ">>),
              Str(T_S1), Str(T_B1)),
    \* scenario C: an excluded unit, of sku S / batch 1B1
    InvRecord(Str(<<"P","A","R","T","I","A","L">>), E_Bin, E_Type, E_Qual,
              Str(<<"E","x","c","l","u","d","e","d">>),
              Str(<<"H","U","2">>), Str(<<"S">>), Str(<<"1","B","1">>)),
    \* an eligible unit with blank HU code, sku and batch
    InvRecord(E_Area, E_Bin, E_Type, E_Qual,
              Str(<<"N","o","t"," ","I","n","c","l","u","d","e","d">>), NaN, NaN, NaN) }

InvLayouts ==
  { <<INV_AREA_COL, INV_BIN_STATUS_COL, INV_HU_TYPE_COL, INV_QUALITY_COL,
      INV_INCLUSION_COL, INV_HU_CODE_COL, INV_SKU_COL, INV_BATCH_COL>>,
    <<INV_AREA_COL, INV_INCLUSION_COL, INV_HU_CODE_COL, INV_BATCH_COL>>,
    <<"INV_KEY", "HU_norm", INV_SKU_COL, INV_BATCH_COL, "SBL Demand">>,
    <<>> }

InvTables == Tables(InvLayouts, InvRecords, MaxInvRows)

C_EVENT == <<"E","v","e","n","t">>
C_INNER_ALT == <<"i","n","n","e","r"," ","H","u"," ","C","o","d","e">>

ConvRecord(hu) ==
  (CONV_INNER_HU_COL :> hu) @@ (C_INNER_ALT :> hu) @@ (C_EVENT :> Str(<<"f","e","d">>))

ConvRecords ==
  { ConvRecord(Str(<<NBSP,"h","u","1">>)), ConvRecord(NaN) }

ConvLayouts ==
  { <<C_EVENT, CONV_INNER_HU_COL>>, <<C_EVENT, C_INNER_ALT>>, <<C_EVENT>>, <<>> }

ConvTables == Tables(ConvLayouts, ConvRecords, MaxConvRows)

OutRecord(sku, batch) ==
  (OUT_SKU_COL :> sku) @@ (OUT_BATCH_COL :> batch) @@ ("Order" :> Str(<<"o">>))

OutRecords ==
  { OutRecord(Str(T_S1), Str(T_B1)),
    OutRecord(Str(<<" ","s","1">>), Str(<<"B","1",TAB>>)),
    OutRecord(NaN, NaN) }

OutLayouts ==
  { <<"Order", OUT_SKU_COL, OUT_BATCH_COL>>, <<"Order", OUT_SKU_COL>>, <<>> }

OutTables == Tables(OutLayouts, OutRecords, MaxOutRows)

\* ------------------------------------------------------------------------
\* State
\* ------------------------------------------------------------------------
VARIABLES
  pc,            \* "upload": waiting for the three files; "ready": files read;
                 \* "done": final sheet shown
  inv_df, conv_df, out_df,     \* the three tables read from the uploads
  inv, fed_set, out_map, demand_keys, not_fed,   \* locals of run_pipeline
  final_sheet, counts          \* what run_pipeline returns

vars == <<pc, inv_df, conv_df, out_df, inv, fed_set, out_map, demand_keys,
          not_fed, final_sheet, counts>>

ZeroCounts ==
  [inventory_after_filters |-> 0, not_fed_count |-> 0,
   final_matched_count |-> 0, demand_keys |-> 0]

Blank ==
  /\ inv_df = EmptyDF /\ conv_df = EmptyDF /\ out_df = EmptyDF
  /\ inv = EmptyDF /\ fed_set = {} /\ out_map = <<>> /\ demand_keys = {}
  /\ not_fed = EmptyDF /\ final_sheet = EmptyDF /\ counts = ZeroCounts

\* the page before any file is uploaded (lines 152-156, 201-202)
Init == pc = "upload" /\ Blank

\* the three files are uploaded and read (lines 152-180)
Upload ==
  /\ pc = "upload"
  /\ inv_df' \in InvTables
  /\ conv_df' \in ConvTables
  /\ out_df' \in OutTables
  /\ pc' = "ready"
  /\ UNCHANGED <<inv, fed_set, out_map, demand_keys, not_fed, final_sheet, counts>>

\* the button runs the pipeline and the result is shown (lines 183-189)
RunPipeline ==
  /\ pc = "ready"
  /\ \E p \in {PipelineLocals(inv_df, conv_df, out_df)} :
         /\ inv' = p.inv
         /\ fed_set' = p.fed_set
         /\ out_map' = p.out_map
         /\ demand_keys' = p.demand_keys
         /\ not_fed' = p.not_fed
         /\ final_sheet' = p.final
         /\ counts' = p.counts
  /\ pc' = "done"
  /\ UNCHANGED <<inv_df, conv_df, out_df>>

\* the page is run again with the uploads cleared (lines 156, 201-202)
Rerun ==
  /\ pc = "done"
  /\ pc' = "upload"
  /\ inv_df' = EmptyDF /\ conv_df' = EmptyDF /\ out_df' = EmptyDF
  /\ inv' = EmptyDF /\ fed_set' = {} /\ out_map' = <<>> /\ demand_keys' = {}
  /\ not_fed' = EmptyDF /\ final_sheet' = EmptyDF /\ counts' = ZeroCounts

Next == Upload \/ RunPipeline \/ Rerun

Spec == Init /\ [][Next]_vars

\* ------------------------------------------------------------------------
\* Vocabulary of the properties
\* ------------------------------------------------------------------------
Done == pc = "done"

ResultRows == Range(final_sheet.rows)

\* the uploaded inventory row a (filtered or final) row came from
OrigRow(r) == inv_df.rows[r.idx + 1]

\* the text of a field of a row; a field whose column is missing is blank
FieldOf(row, col) == IF col \in DOMAIN row.cells THEN row.cells[col] ELSE NaN

\* normalized handling-unit identifier of an inventory row
HUNormOf(row) == normalize_series(FieldOf(row, INV_HU_CODE_COL))

\* composite key of an inventory row / of a demand row: empty when a source
\* column is missing
InvKeyOf(row) ==
  IF {INV_SKU_COL, INV_BATCH_COL} \subseteq DOMAIN row.cells
  THEN concat_no_delim(row.cells[INV_SKU_COL], row.cells[INV_BATCH_COL])
  ELSE <<>>

DemandKeyOf(row) ==
  IF {OUT_SKU_COL, OUT_BATCH_COL} \subseteq DOMAIN row.cells
  THEN concat_no_delim(row.cells[OUT_SKU_COL], row.cells[OUT_BATCH_COL])
  ELSE <<>>

\* trim-only display concatenation of a demand row
DisplayOf(row) ==
  IF {OUT_SKU_COL, OUT_BATCH_COL} \subseteq DOMAIN row.cells
  THEN Strip(FillnaStr(row.cells[OUT_SKU_COL])) \o Strip(FillnaStr(row.cells[OUT_BATCH_COL]))
  ELSE <<>>

KeyColumnMissing ==
  \/ ~HasColumn(inv_df, INV_SKU_COL) \/ ~HasColumn(inv_df, INV_BATCH_COL)
  \/ ~HasColumn(out_df, OUT_SKU_COL) \/ ~HasColumn(out_df, OUT_BATCH_COL)

\* the conveyor table has an inner-HU column, by name or by the heuristic
InnerResolved == HasColumn(conv_df, CONV_INNER_HU_COL) \/ Matched(conv_df) # <<>>
InnerCol ==
  IF HasColumn(conv_df, CONV_INNER_HU_COL) THEN CONV_INNER_HU_COL ELSE Matched(conv_df)[1]

\* ------------------------------------------------------------------------
\* C1 - Empty-key safety: when the sku or the batch column is missing from
\* the inventory table or from the demand table, the result has no rows.
\* ------------------------------------------------------------------------
C1_EmptyKeySafety ==
  (Done /\ KeyColumnMissing) => Len(final_sheet.rows) = 0

\* ------------------------------------------------------------------------
\* C2 - Fed-set fallback: when the conveyor table has neither the configured
\* inner-HU column nor a column whose name contains "inner" and "hu", the
\* fed set is empty and no filtered inventory row is excluded as fed.
\* ------------------------------------------------------------------------
C2_FedSetFallback ==
  (Done /\ ~InnerResolved) =>
     /\ fed_set = {}
     /\ Len(not_fed.rows) = Len(inv.rows)

\* ------------------------------------------------------------------------
\* C3 - The fed set is exactly the set of the normalized inner-HU values of
\* the conveyor rows whose inner-HU value is present; a missing value adds
\* no member.
\* ------------------------------------------------------------------------
C3_FedSetDiscardsMissing ==
  (Done /\ InnerResolved) =>
     fed_set = {normalize_series(r.cells[InnerCol]) :
                  r \in {x \in Range(conv_df.rows) : x.cells[InnerCol] # NaN}}

\* ------------------------------------------------------------------------
\* C4 - Not-fed correctness: the normalized HU identifier of every result
\* row is outside the fed set; an inventory row whose HU code normalizes to
\* the normalized value of an inner-HU present in a conveyor row is not in
\* the result.
\* ------------------------------------------------------------------------
C4_NotFedCorrectness ==
  Done =>
     /\ \A r \in ResultRows : HUNormOf(r) \notin fed_set
     /\ InnerResolved =>
          \A i \in 1..Len(inv_df.rows) : \A c \in Range(conv_df.rows) :
             (/\ c.cells[InnerCol] # NaN
              /\ HUNormOf(inv_df.rows[i]) = normalize_series(c.cells[InnerCol]))
               => \A r \in ResultRows : r.idx # inv_df.rows[i].idx

\* a result row exists while another filtered row was excluded as fed although
\* its HU code is not literally the conveyor's inner-HU text
C4_Witness ==
  /\ Done
  /\ Len(final_sheet.rows) > 0
  /\ InnerResolved
  /\ \E r \in Range(inv.rows) : \E c \in Range(conv_df.rows) :
        /\ r.cells["Is_Fed"] = Bool(TRUE)
        /\ HasColumn(inv_df, INV_HU_CODE_COL)
        /\ c.cells[InnerCol] # NaN
        /\ OrigRow(r).cells[INV_HU_CODE_COL] # c.cells[InnerCol]
        /\ HUNormOf(OrigRow(r)) = normalize_series(c.cells[InnerCol])

\* ------------------------------------------------------------------------
\* C5 - Demand correctness: the inventory composite key of every result row
\* is a member of the demand key set built from the demand table.
\* ------------------------------------------------------------------------
C5_DemandCorrectness ==
  Done =>
     \A r \in ResultRows :
        /\ InvKeyOf(OrigRow(r)) \in demand_keys
        /\ \E d \in Range(out_df.rows) : DemandKeyOf(d) = InvKeyOf(OrigRow(r))

\* a not-fed row is in the result and another not-fed row is rejected
C5_Witness ==
  /\ Done
  /\ Len(final_sheet.rows) > 0
  /\ Len(final_sheet.rows) < Len(not_fed.rows)

\* ------------------------------------------------------------------------
\* C6 - Empty inputs: when any of the three tables has no rows, the result
\* has no rows and the four summary counters are zero.
\* ------------------------------------------------------------------------
C6_EmptyInputs ==
  (Done /\ (Len(inv_df.rows) = 0 \/ Len(conv_df.rows) = 0 \/ Len(out_df.rows) = 0))
     => (Len(final_sheet.rows) = 0 /\ counts = ZeroCounts)

\* C6 as amended: an inventory table without rows gives an empty result and
\* zero inventory_after_filters, not_fed_count and final_matched_count; a
\* demand table without rows gives an empty result and zero
\* final_matched_count and demand_keys; a conveyor table without rows gives
\* an empty fed set, so that not_fed_count equals inventory_after_filters.
C6_EmptyInputsAmended ==
  Done =>
     /\ Len(inv_df.rows) = 0 =>
          /\ Len(final_sheet.rows) = 0
          /\ counts.inventory_after_filters = 0
          /\ counts.not_fed_count = 0
          /\ counts.final_matched_count = 0
     /\ Len(out_df.rows) = 0 =>
          /\ Len(final_sheet.rows) = 0
          /\ counts.final_matched_count = 0
          /\ counts.demand_keys = 0
     /\ Len(conv_df.rows) = 0 =>
          /\ fed_set = {}
          /\ counts.not_fed_count = counts.inventory_after_filters

\* the demand table has no rows while eligible, not-fed inventory rows exist
C6_Witness ==
  /\ Done
  /\ Len(out_df.rows) = 0
  /\ Len(conv_df.rows) = 0
  /\ counts.not_fed_count > 0
  /\ Len(final_sheet.rows) = 0

\* the eligibility predicates over the columns cols, each one holding when
\* its column is not among them
HoldsContains(row, cols, col, sub) ==
  col \in cols => Contains(Lower(AsTypeStr(row.cells[col])), sub)
HoldsEquals(row, cols, col, val) ==
  col \in cols => Lower(AsTypeStr(row.cells[col])) = val

EligibleOn(row, cols) ==
  /\ HoldsContains(row, cols, INV_AREA_COL, <<"p","a","r","t","i","a","l">>)
  /\ HoldsEquals(row, cols, INV_BIN_STATUS_COL, <<"a","c","t","i","v","e">>)
  /\ HoldsEquals(row, cols, INV_HU_TYPE_COL, <<"c","a","r","t","o","n","s">>)
  /\ HoldsEquals(row, cols, INV_QUALITY_COL, <<"g","o","o","d">>)
  /\ HoldsContains(row, cols, INV_INCLUSION_COL, <<"i","n","c","l","u","d","e","d">>)

EligibleRow(row) == EligibleOn(row, DOMAIN row.cells)

\* number of rows of the uploaded inventory eligible without the column c
EligibleCountWithout(c) ==
  Cardinality({i \in 1..Len(inv_df.rows) :
                 EligibleOn(inv_df.rows[i], (DOMAIN inv_df.rows[i].cells) \ {c})})

IdxOf(rows) == [i \in 1..Len(rows) |-> rows[i].idx]

\* ------------------------------------------------------------------------
\* C7 - Eligibility filter: the filtered inventory is exactly the rows, in
\* their order, that satisfy every predicate whose column is present; a
\* missing column removes no row; inventory_after_filters never exceeds the
\* number of rows and never grows when a column (a predicate) is added.
\* ------------------------------------------------------------------------
C7_EligibilityFilter ==
  Done =>
     /\ IdxOf(inv.rows) = IdxOf(SelectSeq(inv_df.rows, EligibleRow))
     /\ counts.inventory_after_filters = Len(inv.rows)
     /\ counts.inventory_after_filters <= Len(inv_df.rows)
     /\ \A c \in Range(inv_df.columns) :
          counts.inventory_after_filters <= EligibleCountWithout(c)

\* a table without the bin status column of which the filters keep the
\* second row and remove the first
C7_Witness ==
  /\ Done
  /\ ~HasColumn(inv_df, INV_BIN_STATUS_COL)
  /\ HasColumn(inv_df, INV_INCLUSION_COL)
  /\ Len(inv_df.rows) = 2
  /\ IdxOf(inv.rows) = <<1>>

\* position of the first demand row with key k
FirstDemandRow(k) ==
  CHOOSE j \in 1..Len(out_df.rows) :
    /\ DemandKeyOf(out_df.rows[j]) = k
    /\ \A i \in 1..(j - 1) : DemandKeyOf(out_df.rows[i]) # k

\* ------------------------------------------------------------------------
\* C8 - Display column: "SBL Demand" of every result row is the trim-only
\* concatenation, original casing kept, of the first demand row whose
\* normalized key equals the row's inventory key; later demand rows with
\* that key do not change it.
\* ------------------------------------------------------------------------
C8_DisplayColumn ==
  Done =>
     \A r \in ResultRows :
        /\ \E j \in 1..Len(out_df.rows) : DemandKeyOf(out_df.rows[j]) = InvKeyOf(OrigRow(r))
        /\ r.cells["SBL Demand"]
             = Str(DisplayOf(out_df.rows[FirstDemandRow(InvKeyOf(OrigRow(r)))]))

\* a result row whose key is demanded twice, under two different displays,
\* neither of which is the normalized key
C8_Witness ==
  /\ Done
  /\ Len(out_df.rows) = 2
  /\ \E r \in ResultRows :
        /\ DemandKeyOf(out_df.rows[1]) = InvKeyOf(OrigRow(r))
        /\ DemandKeyOf(out_df.rows[2]) = InvKeyOf(OrigRow(r))
        /\ DisplayOf(out_df.rows[1]) # DisplayOf(out_df.rows[2])
        /\ DisplayOf(out_df.rows[1]) # InvKeyOf(OrigRow(r))
        /\ r.cells["SBL Demand"] = Str(DisplayOf(out_df.rows[1]))

\* ------------------------------------------------------------------------
\* C9 - Output schema and frame: the columns of the result are the original
\* inventory columns, each once and in their order, followed by Conveyor_HU
\* and SBL Demand; every result row has in the original columns the values
\* of the inventory row it came from.
\* ------------------------------------------------------------------------
C9_OutputSchema ==
  Done =>
     /\ final_sheet.columns = inv_df.columns \o <<"Conveyor_HU", "SBL Demand">>
     /\ \A i \in 1..Len(final_sheet.columns), j \in 1..Len(final_sheet.columns) :
          final_sheet.columns[i] = final_sheet.columns[j] => i = j
     /\ \A r \in ResultRows : \A c \in Range(inv_df.columns) :
          r.cells[c] = OrigRow(r).cells[c]

\* ------------------------------------------------------------------------
\* C10 - Join identity: when both tables have the sku and batch columns,
\* every result row has a demand row with the same normalized sku and the
\* same normalized batch.
\* ------------------------------------------------------------------------
C10_JoinIdentity ==
  (Done /\ ~KeyColumnMissing) =>
     \A r \in ResultRows : \E d \in Range(out_df.rows) :
        /\ normalize_series(OrigRow(r).cells[INV_SKU_COL])
             = normalize_series(d.cells[OUT_SKU_COL])
        /\ normalize_series(OrigRow(r).cells[INV_BATCH_COL])
             = normalize_series(d.cells[OUT_BATCH_COL])

====
